---- MODULE Spec2Model ----
(***************************************************************************)
(* Question / report generation service boundary of the GlowUp app.        *)
(*                                                                         *)
(* Three layers are modelled:                                              *)
(*   - the React pages (Landing.jsx, Dashboard.jsx): component state and   *)
(*     the click / effect handlers that start a generation request;        *)
(*   - the client service (marketResearchService.js): one fetch per call,  *)
(*     the response turned into a returned body or a thrown Error;         *)
(*   - the backend Generation Orchestrator, LLM Gateway and Fallback       *)
(*     Question Bank behind /api/generate-questions and                    *)
(*     /api/generate-report.  The Python backend is not part of the        *)
(*     sources at hand, so this layer follows the design document.         *)
(***************************************************************************)
EXTENDS Integers, Sequences, FiniteSets, TLC

(***************************************************************************)
(* Bounds of the model.                                                    *)
(***************************************************************************)
\* requests issued in one run
MaxRequests == 2

(***************************************************************************)
(* Program constants.                                                      *)
(***************************************************************************)
\* <textarea maxLength={1000}> of the Landing page
maxLength == 1000
\* the Orchestrator's cap on the problem statement
MaxProblemLength == 1000

(***************************************************************************)
(* Strings.  A problem statement is kept as the number of leading white-   *)
(* space characters, the length of its core (which starts and ends with a  *)
(* non-whitespace character) and the number of trailing whitespace         *)
(* characters.  A whitespace-only text has body = 0.                       *)
(***************************************************************************)
Str(l, b, t) == [lead |-> l, body |-> b, trail |-> t]

Length(s) == s.lead + s.body + s.trail

\* trimStart in place of trim
TrimStartOnly(s) == Str(0, s.body, s.trail)

\* String.prototype.trim
Trim(s) == Str(0, s.body, 0)

\* JavaScript truthiness of a string: non-empty
Truthy(s) == Length(s) > 0

\* the empty text, a whitespace-only one, one of exactly maxLength characters
\* with whitespace at both ends, and one of maxLength + 1 characters
StatementSamples ==
  { Str(0, 0, 0), Str(1, 0, 0), Str(1, maxLength - 2, 1), Str(0, maxLength + 1, 0) }

\* the bodies the other API clients post
ApiStatements == { Str(0, 0, 0), Str(0, maxLength, 0), Str(0, maxLength + 1, 0) }

\* what the textarea lets the user enter
TypableStatements == { s \in StatementSamples : Length(s) <= maxLength }

(***************************************************************************)
(* Payloads, questions and envelopes.                                      *)
(***************************************************************************)
Tasks == {"questions", "report", "pitch", "investors"}

GatewayErrorKinds == {"unreachable", "timeout", "bad-response", "auth"}

GatewayOutcomes == {"ok"} \cup GatewayErrorKinds

\* what the Gateway's network call is made to come to in the runs explored; the
\* Orchestrator treats every error kind alike, "auth" also arises without a call
NetworkSamples == {"ok", "timeout", "bad-response"}

LiveVariants == {1, 2}

Question(i, txt, k, opts) == [id |-> i, text |-> txt, kind |-> k, options |-> opts]

\* user_answers: a list of question-answer pairs; has is the set of keys a pair
\* carries, answer the length of its answer text
AnswerPair(keys, len) == [has |-> keys, answer |-> len]

NoAnswers == <<>>

AnswerSamples ==
  { << AnswerPair({"question", "answer"}, 5) >>,
    << AnswerPair({"question", "answer"}, 5), AnswerPair({"question", "answer"}, 0) >>,
    << AnswerPair({"question"}, 0) >> }

NoPayload == [kind |-> "none", variant |-> 0, items |-> <<>>]

\* a bank whose select question comes without its options
FallbackBankWithoutOptions(ps) ==
  [kind |-> "questions", variant |-> 0,
   items |-> << Question(1, "industry", "single-select", <<>>),
                Question(2, "customers", "free-text", <<>>) >>]

\* static template set of the Fallback Question Bank
FallbackBank(ps) ==
  [kind |-> "questions", variant |-> 0,
   items |-> << Question(1, "industry", "single-select", <<"retail", "other">>),
                Question(2, "customers", "free-text", <<>>) >>]

\* what the model behind the Gateway answers; it is not deterministic
LivePayload(task, v) ==
  IF task = "questions"
    THEN [kind |-> "questions", variant |-> v,
          items |-> IF v = 1
                      THEN << Question(1, "live", "free-text", <<>>) >>
                      ELSE << Question(1, "live", "single-select", <<"yes", "no">>),
                              Question(2, "live", "free-text", <<>>) >>]
    ELSE [kind |-> task, variant |-> v, items |-> <<>>]

Envelope(ok, p, m, e) == [success |-> ok, payload |-> p, generationMethod |-> m, error |-> e]

NoEnvelope == Envelope(FALSE, NoPayload, "none", "")

\* client is who talks to the backend in this run: the browser tab showing the
\* Landing page (route "/"), the tab showing the Dashboard (route "/app"), or
\* another HTTP client of the API.  The backend keeps nothing between requests.
VARIABLES
  client,
  problemStatement, isGenerating, questions, error, ignoredClick,
  profile, active, marketReport, isGeneratingReport, marketError,
  apiKeyPresent, reqs, calls

landingVars == <<problemStatement, isGenerating, questions, error, ignoredClick>>
dashboardVars == <<profile, active, marketReport, isGeneratingReport, marketError>>
vars == <<client, problemStatement, isGenerating, questions, error, ignoredClick,
          profile, active, marketReport, isGeneratingReport, marketError,
          apiKeyPresent, reqs, calls>>

(***************************************************************************)
(* A generation request.  origin is who issued it: the Landing page, the   *)
(* Dashboard's market section, or another HTTP client of the API ("api").  *)
(* stage is the Orchestrator's state for the request; gw counts the calls  *)
(* of the LLM Gateway made for it and net the network calls the Gateway    *)
(* attempted; gwOutcome / gwPayload are what the Gateway answered; env is  *)
(* the envelope the Orchestrator produced; verdict is the error class of   *)
(* the request; result is what the client-side service call came to.       *)
(***************************************************************************)
Clients == {"landing", "dashboard", "api"}

TerminalStages == {"Succeeded", "FallingBack", "Failed"}

Pending == [kind |-> "pending", http |-> "none", data |-> NoEnvelope, message |-> ""]

\* return data
Returned(h, d) == [kind |-> "return", http |-> h, data |-> d, message |-> ""]

\* throw new Error(m)
Thrown(h, m) == [kind |-> "throw", http |-> h, data |-> NoEnvelope, message |-> m]

\* the promise never settles
Hung == [kind |-> "hung", http |-> "none", data |-> NoEnvelope, message |-> ""]

NewRequest(o, t, s) ==
  [origin |-> o, task |-> t, ps |-> s, stage |-> "Validating", gw |-> 0, net |-> 0,
   gwOutcome |-> "none", gwPayload |-> NoPayload, env |-> NoEnvelope,
   answers |-> NoAnswers, verdict |-> "none", result |-> Pending]

Init ==
  /\ client \in Clients
  /\ problemStatement = Str(0, 0, 0)
  /\ isGenerating = FALSE
  /\ questions = NoPayload
  /\ error = ""
  /\ ignoredClick = FALSE
  /\ profile \in (IF client = "dashboard" THEN StatementSamples ELSE {Str(0, 0, 0)})
  /\ active = "profile"
  /\ marketReport = NoEnvelope
  /\ isGeneratingReport = FALSE
  /\ marketError = ""
  /\ apiKeyPresent \in (IF client = "landing" THEN {TRUE} ELSE BOOLEAN)
  /\ reqs = <<>>
  /\ calls = <<>>

(***************************************************************************)
(* Backend: Generation Orchestrator, LLM Gateway, Fallback Question Bank.  *)
(***************************************************************************)
\* Validating: the message of the ValidationError, "" when the input passes
ValidationError(ps) ==
  IF Length(ps) = 0 THEN "Please enter a problem statement"
  ELSE IF Length(ps) > MaxProblemLength THEN "Problem statement is too long"
  ELSE ""

\* input validation that accepts every list of answers
AnswersErrorNone(answers) == ""

\* validate_inputs on the user answers: every pair has both fields and a
\* non-empty answer; "" when the answers pass (no answers at all pass)
AnswersError(answers) ==
  IF \E k \in 1..Len(answers) : answers[k].has # {"question", "answer"}
    THEN "Missing required field"
  ELSE IF \E k \in 1..Len(answers) : answers[k].answer = 0
    THEN "Answers must not be empty"
  ELSE ""

\* a Gateway that does not look at the key before calling out
MissingCredentialsIgnored(task, key) == FALSE

\* the remote-model tasks need the API key; question generation uses the local model
MissingCredentials(task, key) == task # "questions" /\ ~key

\* LLM Gateway call(promptSpec): a typed result, never an exception.  net is what
\* the network call came to; calls is the number of network calls attempted.
GatewayCall(task, key, net, v) ==
  IF MissingCredentials(task, key)
    THEN [calls |-> 0, outcome |-> "auth", payload |-> NoPayload]
  ELSE IF net = "ok"
    THEN [calls |-> 1, outcome |-> "ok", payload |-> LivePayload(task, v)]
    ELSE [calls |-> 1, outcome |-> net, payload |-> NoPayload]

\* Validating -> Calling | Failed
OrchestratorValidate(r) ==
  IF ValidationError(r.ps) # ""
    THEN [r EXCEPT !.stage = "Failed", !.verdict = "ValidationError",
                   !.env = Envelope(FALSE, NoPayload, "none", ValidationError(r.ps))]
  ELSE IF AnswersError(r.answers) # ""
    THEN [r EXCEPT !.stage = "Failed", !.verdict = "ValidationError",
                   !.env = Envelope(FALSE, NoPayload, "none", AnswersError(r.answers))]
    ELSE [r EXCEPT !.stage = "Calling"]

\* an Orchestrator with a shared call budget: once any request has used the
\* Gateway, later calls are answered as a timeout
OrchestratorCallSharedBudget(r, key, net, v) ==
  LET spent == \E i \in 1..Len(reqs) : reqs[i].gw > 0
      g == GatewayCall(r.task, key, IF spent THEN "timeout" ELSE net, v) IN
  IF g.outcome = "ok"
    THEN [r EXCEPT !.stage = "Succeeded", !.verdict = "ok", !.gw = @ + 1, !.net = @ + g.calls,
                   !.gwOutcome = net, !.gwPayload = LivePayload(r.task, v),
                   !.env = Envelope(TRUE, g.payload, "live-model", "")]
  ELSE IF r.task = "questions"
    THEN [r EXCEPT !.stage = "FallingBack", !.verdict = "GatewayError", !.gw = @ + 1, !.net = @ + g.calls,
                   !.gwOutcome = net, !.gwPayload = IF net = "ok" THEN LivePayload(r.task, v) ELSE NoPayload,
                   !.env = Envelope(TRUE, FallbackBank(r.ps), "fallback", "")]
    ELSE [r EXCEPT !.stage = "Failed", !.verdict = "GatewayError", !.gw = @ + 1, !.net = @ + g.calls,
                   !.gwOutcome = net, !.gwPayload = IF net = "ok" THEN LivePayload(r.task, v) ELSE NoPayload,
                   !.env = Envelope(FALSE, NoPayload, "none", "Generation failed: " \o g.outcome)]

\* an Orchestrator that falls back to the question bank for every task
OrchestratorCallFallsBackForAll(r, key, net, v) ==
  LET g == GatewayCall(r.task, key, net, v) IN
  IF g.outcome = "ok"
    THEN [r EXCEPT !.stage = "Succeeded", !.verdict = "ok", !.gw = @ + 1, !.net = @ + g.calls,
                   !.gwOutcome = g.outcome, !.gwPayload = g.payload,
                   !.env = Envelope(TRUE, g.payload, "live-model", "")]
    ELSE [r EXCEPT !.stage = "FallingBack", !.verdict = "GatewayError", !.gw = @ + 1, !.net = @ + g.calls,
                   !.gwOutcome = g.outcome, !.gwPayload = g.payload,
                   !.env = Envelope(TRUE, FallbackBank(r.ps), "fallback", "")]

\* Calling -> Succeeded | FallingBack | Failed
OrchestratorCall(r, key, net, v) ==
  LET g == GatewayCall(r.task, key, net, v) IN
  IF g.outcome = "ok"
    THEN [r EXCEPT !.stage = "Succeeded", !.verdict = "ok", !.gw = @ + 1, !.net = @ + g.calls,
                   !.gwOutcome = g.outcome, !.gwPayload = g.payload,
                   !.env = Envelope(TRUE, g.payload, "live-model", "")]
  ELSE IF r.task = "questions"
    THEN [r EXCEPT !.stage = "FallingBack", !.verdict = "GatewayError", !.gw = @ + 1, !.net = @ + g.calls,
                   !.gwOutcome = g.outcome, !.gwPayload = g.payload,
                   !.env = Envelope(TRUE, FallbackBank(r.ps), "fallback", "")]
    ELSE [r EXCEPT !.stage = "Failed", !.verdict = "GatewayError", !.gw = @ + 1, !.net = @ + g.calls,
                   !.gwOutcome = g.outcome, !.gwPayload = g.payload,
                   !.env = Envelope(FALSE, NoPayload, "none", "Generation failed: " \o g.outcome)]

BackendValidate(i) ==
  /\ reqs[i].stage = "Validating"
  /\ reqs' = [reqs EXCEPT ![i] = OrchestratorValidate(reqs[i])]
  /\ UNCHANGED <<landingVars, dashboardVars, apiKeyPresent, client, calls>>

BackendCall(i, net, v) ==
  /\ reqs[i].stage = "Calling"
  /\ reqs' = [reqs EXCEPT ![i] = OrchestratorCall(reqs[i], apiKeyPresent, net, v)]
  /\ UNCHANGED <<landingVars, dashboardVars, apiKeyPresent, client, calls>>

\* any other HTTP client of the API (another tab, another session, a script)
ApiPost(t, s) ==
  /\ client = "api"
  /\ Len(reqs) < MaxRequests
  /\ reqs' = Append(reqs, NewRequest("api", t, s))
  /\ UNCHANGED <<landingVars, dashboardVars, apiKeyPresent, client, calls>>

\* a report request that carries user answers, from another client of the API
ApiPostReport(s, a) ==
  /\ client = "api"
  /\ Len(reqs) < MaxRequests
  /\ reqs' = Append(reqs, [NewRequest("api", "report", s) EXCEPT !.answers = a])
  /\ UNCHANGED <<landingVars, dashboardVars, apiKeyPresent, client, calls>>

(***************************************************************************)
(* Client service, marketResearchService.js.  http is what the fetch came  *)
(* to: "reject" (the promise rejects: backend unreachable), "non2xx"       *)
(* (response.ok is false), "badjson" (response.json() throws) or "ok" (a   *)
(* 2xx response whose JSON body is the envelope).                          *)
(***************************************************************************)
HttpOutcomes == {"reject", "non2xx", "badjson", "ok"}

\* generateQuestions that answers a failure object where the source throws
generateQuestionsReturnsFailure(http, body) ==
  IF http \in {"reject", "non2xx", "badjson"} THEN Returned(http, NoEnvelope)
  ELSE IF ~body.success THEN Returned(http, NoEnvelope)
  ELSE Returned(http, body)

\* generateQuestions with the test of data.success inverted
generateQuestionsInvertedSuccess(http, body) ==
  IF http = "reject" THEN Thrown(http, "Failed to fetch")
  ELSE IF http = "non2xx" THEN Thrown(http, "HTTP error! status")
  ELSE IF http = "badjson" THEN Thrown(http, "Unexpected token in JSON")
  ELSE IF body.success
    THEN Thrown(http, IF body.error # "" THEN body.error ELSE "Failed to generate questions")
  ELSE Returned(http, body)

\* generateQuestions answering an empty body when response.json() fails
generateQuestionsToleratesBadJson(http, body) ==
  IF http = "reject" THEN Thrown(http, "Failed to fetch")
  ELSE IF http = "non2xx" THEN Thrown(http, "HTTP error! status")
  ELSE IF http = "badjson" THEN Returned(http, NoEnvelope)
  ELSE IF ~body.success
    THEN Thrown(http, IF body.error # "" THEN body.error ELSE "Failed to generate questions")
  ELSE Returned(http, body)

\* generateQuestions with a module-level cache of the last answer it returned
generateQuestionsCached(http, body) ==
  LET cached == { reqs[k].result.data :
                    k \in { j \in 1..Len(reqs) : reqs[j].result.kind = "return" } } IN
  IF cached # {} THEN Returned(http, CHOOSE d \in cached : TRUE)
  ELSE IF http = "reject" THEN Thrown(http, "Failed to fetch")
  ELSE IF http = "non2xx" THEN Thrown(http, "HTTP error! status")
  ELSE IF http = "badjson" THEN Thrown(http, "Unexpected token in JSON")
  ELSE IF ~body.success
    THEN Thrown(http, IF body.error # "" THEN body.error ELSE "Failed to generate questions")
  ELSE Returned(http, body)

\* generateQuestions treating a fallback body as a failure
generateQuestionsRejectsFallback(http, body) ==
  IF http = "reject" THEN Thrown(http, "Failed to fetch")
  ELSE IF http = "non2xx" THEN Thrown(http, "HTTP error! status")
  ELSE IF http = "badjson" THEN Thrown(http, "Unexpected token in JSON")
  ELSE IF ~body.success \/ body.generationMethod = "fallback"
    THEN Thrown(http, IF body.error # "" THEN body.error ELSE "Failed to generate questions")
  ELSE Returned(http, body)

generateQuestions(http, body) ==
  IF http = "reject" THEN Thrown(http, "Failed to fetch")
  ELSE IF http = "non2xx" THEN Thrown(http, "HTTP error! status")
  ELSE IF http = "badjson" THEN Thrown(http, "Unexpected token in JSON")
  ELSE IF ~body.success
    THEN Thrown(http, IF body.error # "" THEN body.error ELSE "Failed to generate questions")
  ELSE Returned(http, body)

\* generateReport without the test of data.success
generateReportNoSuccessCheck(http, body) ==
  IF http = "reject" THEN Thrown(http, "Failed to fetch")
  ELSE IF http = "non2xx" THEN Thrown(http, "HTTP error! status")
  ELSE IF http = "badjson" THEN Thrown(http, "Unexpected token in JSON")
  ELSE Returned(http, body)

\* generateReport whose catch block answers { success: false } instead of rethrowing
generateReportSwallowsErrors(http, body) ==
  IF http \in {"reject", "non2xx", "badjson"} THEN Returned(http, NoEnvelope)
  ELSE IF ~body.success THEN Returned(http, NoEnvelope)
  ELSE Returned(http, body)

\* generateReport that rebuilds the object it returns and leaves generation_method out
generateReportDropsMethod(http, body) ==
  IF http = "reject" THEN Thrown(http, "Failed to fetch")
  ELSE IF http = "non2xx" THEN Thrown(http, "HTTP error! status")
  ELSE IF http = "badjson" THEN Thrown(http, "Unexpected token in JSON")
  ELSE IF ~body.success
    THEN Thrown(http, IF body.error # "" THEN body.error ELSE "Failed to generate report")
  ELSE Returned(http, [body EXCEPT !.generationMethod = "none"])

generateReport(http, body) ==
  IF http = "reject" THEN Thrown(http, "Failed to fetch")
  ELSE IF http = "non2xx" THEN Thrown(http, "HTTP error! status")
  ELSE IF http = "badjson" THEN Thrown(http, "Unexpected token in JSON")
  ELSE IF ~body.success
    THEN Thrown(http, IF body.error # "" THEN body.error ELSE "Failed to generate report")
  ELSE Returned(http, body)

\* a 2xx JSON answer exists only once the Orchestrator has produced the envelope
CanAnswer(r, http) == http = "ok" => r.stage \in TerminalStages

(***************************************************************************)
(* Landing page.                                                           *)
(***************************************************************************)
\* the button without the statement in its disabled attribute
ButtonDisabledIgnoringStatement == isGenerating

\* the button without isGenerating in its disabled attribute
ButtonDisabledIgnoringLoading == ~Truthy(Trim(problemStatement))

\* disabled={isGenerating || !problemStatement.trim()}
ButtonDisabled == isGenerating \/ ~Truthy(Trim(problemStatement))

\* onChange={(e) => setProblemStatement(e.target.value)}
SetProblemStatement(s) ==
  /\ client = "landing"
  /\ s # problemStatement
  /\ problemStatement' = s
  /\ ignoredClick' = FALSE
  /\ UNCHANGED <<isGenerating, questions, error, dashboardVars, apiKeyPresent, client, reqs, calls>>

\* a click on the button while it is disabled: the browser dispatches no click
\* event, the handler does not run.  ignoredClick records that the last thing the
\* user did on the page was such a click.
ClickDisabledButton ==
  /\ client = "landing"
  /\ ButtonDisabled
  /\ ~ignoredClick
  /\ ignoredClick' = TRUE
  /\ UNCHANGED <<problemStatement, isGenerating, questions, error,
                 dashboardVars, apiKeyPresent, client, reqs, calls>>

\* the handler clearing error and questions only when the call has returned
handleGenerateQuestionsClearsNothing ==
  /\ client = "landing"
  /\ ~ButtonDisabled
  /\ Len(reqs) < MaxRequests
  /\ IF ~Truthy(Trim(problemStatement))
       THEN /\ error' = "Please enter a problem statement"
            /\ UNCHANGED <<isGenerating, questions, reqs>>
       ELSE /\ isGenerating' = TRUE
            /\ reqs' = Append(reqs, NewRequest("landing", "questions",
                                               Trim(Trim(problemStatement))))
            /\ UNCHANGED <<error, questions>>
  /\ ignoredClick' = FALSE
  /\ UNCHANGED <<problemStatement, dashboardVars, apiKeyPresent, client, calls>>

\* the handler without setQuestions(null)
handleGenerateQuestionsKeepsQuestions ==
  /\ client = "landing"
  /\ ~ButtonDisabled
  /\ Len(reqs) < MaxRequests
  /\ IF ~Truthy(Trim(problemStatement))
       THEN /\ error' = "Please enter a problem statement"
            /\ UNCHANGED <<isGenerating, questions, reqs>>
       ELSE /\ isGenerating' = TRUE
            /\ error' = ""
            /\ reqs' = Append(reqs, NewRequest("landing", "questions",
                                               Trim(Trim(problemStatement))))
            /\ UNCHANGED questions
  /\ ignoredClick' = FALSE
  /\ UNCHANGED <<problemStatement, dashboardVars, apiKeyPresent, client, calls>>

\* the handler without setError('')
handleGenerateQuestionsKeepsError ==
  /\ client = "landing"
  /\ ~ButtonDisabled
  /\ Len(reqs) < MaxRequests
  /\ IF ~Truthy(Trim(problemStatement))
       THEN /\ error' = "Please enter a problem statement"
            /\ UNCHANGED <<isGenerating, questions, reqs>>
       ELSE /\ isGenerating' = TRUE
            /\ questions' = NoPayload
            /\ reqs' = Append(reqs, NewRequest("landing", "questions",
                                               Trim(Trim(problemStatement))))
            /\ UNCHANGED error
  /\ ignoredClick' = FALSE
  /\ UNCHANGED <<problemStatement, dashboardVars, apiKeyPresent, client, calls>>

\* click on the button: handleGenerateQuestions up to its await
handleGenerateQuestions ==
  /\ client = "landing"
  /\ ~ButtonDisabled
  /\ Len(reqs) < MaxRequests
  /\ IF ~Truthy(Trim(problemStatement))
       THEN /\ error' = "Please enter a problem statement"
            /\ UNCHANGED <<isGenerating, questions, reqs>>
       ELSE /\ isGenerating' = TRUE
            /\ error' = ""
            /\ questions' = NoPayload
            /\ reqs' = Append(reqs, NewRequest("landing", "questions",
                                               Trim(Trim(problemStatement))))
  /\ ignoredClick' = FALSE
  /\ UNCHANGED <<problemStatement, dashboardVars, apiKeyPresent, client, calls>>

\* the handler with setIsGenerating(false) at the end of try, not in finally
LandingSettleNoFinally(i, http) ==
  /\ reqs[i].origin = "landing"
  /\ reqs[i].result.kind = "pending"
  /\ CanAnswer(reqs[i], http)
  /\ LET res == generateQuestions(http, reqs[i].env) IN
       /\ reqs' = [reqs EXCEPT ![i].result = res]
       /\ IF res.kind = "return"
            THEN /\ questions' = res.data.payload
                 /\ isGenerating' = FALSE
                 /\ UNCHANGED error
            ELSE /\ error' = (IF res.message # "" THEN res.message
                              ELSE "Failed to connect to the market research service")
                 /\ UNCHANGED <<questions, isGenerating>>
  /\ UNCHANGED <<problemStatement, ignoredClick, dashboardVars, apiKeyPresent, client, calls>>

\* the awaited service call settles: try / catch / finally of handleGenerateQuestions
LandingSettle(i, http) ==
  /\ reqs[i].origin = "landing"
  /\ reqs[i].result.kind = "pending"
  /\ CanAnswer(reqs[i], http)
  /\ LET res == generateQuestions(http, reqs[i].env) IN
       /\ reqs' = [reqs EXCEPT ![i].result = res]
       /\ IF res.kind = "return"
            THEN /\ questions' = res.data.payload
                 /\ UNCHANGED error
            ELSE /\ error' = (IF res.message # "" THEN res.message
                              ELSE "Failed to connect to the market research service")
                 /\ UNCHANGED questions
       /\ isGenerating' = FALSE
  /\ UNCHANGED <<problemStatement, ignoredClick, dashboardVars, apiKeyPresent, client, calls>>

\* the backend accepts the request and never answers: fetch has no timeout
NeverAnswered(i) ==
  /\ reqs[i].origin \in {"landing", "dashboard"}
  /\ reqs[i].result.kind = "pending"
  /\ reqs' = [reqs EXCEPT ![i].result = Hung]
  /\ UNCHANGED <<landingVars, dashboardVars, apiKeyPresent, client, calls>>

(***************************************************************************)
(* Dashboard page, market section.  profile is profile.problem as read     *)
(* from the session storage at mount; the empty text also stands for an    *)
(* absent one (both are falsy).  Sections "pitch" and "connections" are    *)
(* left out: their state hooks are not declared in Dashboard.jsx.          *)
(***************************************************************************)
Sections == {"profile", "market", "landing"}

\* the handler without its validation
ReportInputNeverRejected(p) == FALSE

\* if (!profile.problem?.trim()): the handler's own validation
ReportInputRejected(p) == ~Truthy(Trim(p))

\* the effect's condition without !marketReport
EffectWantsIgnoringReport(a, report) == a = "market" /\ Truthy(profile)

\* the useEffect's condition: active === 'market' && !marketReport && profile.problem
EffectWants(a, report) == a = "market" /\ report = NoEnvelope /\ Truthy(profile)

\* the effect runs after a render in which one of [active, marketReport,
\* profile.problem] changed, and calls the handler when its condition holds
EffectFires(a0, report0, a1, report1) ==
  (a0 # a1 \/ report0 # report1) /\ EffectWants(a1, report1)

\* generateMarketResearchReport up to its await, run n >= 1 times in a row on
\* the component state, the requests rs being those issued so far
RunGenerateMarketResearchReport(n, rs) ==
  IF ReportInputRejected(profile)
    THEN /\ marketError' = "Problem statement is required to generate market research"
         /\ reqs' = rs
         /\ UNCHANGED <<marketReport, isGeneratingReport>>
    ELSE /\ isGeneratingReport' = TRUE
         /\ marketError' = ""
         /\ marketReport' = NoEnvelope
         /\ reqs' = IF n = 2
                      THEN rs \o << NewRequest("dashboard", "report", profile),
                                    NewRequest("dashboard", "report", profile) >>
                      ELSE Append(rs, NewRequest("dashboard", "report", profile))

\* onClick={() => setActive(s.key)}, then the effect
SetActive(k) ==
  /\ client = "dashboard"
  /\ k # active
  /\ active' = k
  /\ IF EffectFires(active, marketReport, k, marketReport)
       THEN Len(reqs) < MaxRequests /\ RunGenerateMarketResearchReport(1, reqs)
       ELSE UNCHANGED <<marketReport, isGeneratingReport, marketError, reqs>>
  /\ UNCHANGED <<profile, landingVars, apiKeyPresent, client, calls>>

\* "Regenerate Report": the handler runs; when that changes marketReport (a report
\* was shown), the effect runs after the render and calls the handler again
generateMarketResearchReport ==
  /\ client = "dashboard"
  /\ active = "market"
  /\ ~isGeneratingReport
  /\ IF ~ReportInputRejected(profile) /\ EffectFires(active, marketReport, active, NoEnvelope)
       THEN Len(reqs) + 2 <= MaxRequests /\ RunGenerateMarketResearchReport(2, reqs)
       ELSE Len(reqs) + 1 <= MaxRequests /\ RunGenerateMarketResearchReport(1, reqs)
  /\ UNCHANGED <<profile, active, landingVars, apiKeyPresent, client, calls>>

\* the awaited generateReport settles: try / catch / finally, then the effect
DashboardSettle(i, http) ==
  /\ reqs[i].origin = "dashboard"
  /\ reqs[i].result.kind = "pending"
  /\ CanAnswer(reqs[i], http)
  /\ LET res == generateReport(http, reqs[i].env)
         settled == [reqs EXCEPT ![i].result = res]
         report == IF res.kind = "return" /\ res.data.success THEN res.data ELSE marketReport
         message == IF res.kind = "return"
                      THEN IF res.data.success THEN marketError
                           ELSE IF res.data.error # "" THEN res.data.error
                           ELSE "Failed to generate market research report"
                      ELSE "An error occurred while generating the market research report"
     IN IF EffectFires(active, marketReport, active, report)
          THEN Len(reqs) < MaxRequests /\ RunGenerateMarketResearchReport(1, settled)
          ELSE /\ reqs' = settled
               /\ marketReport' = report
               /\ marketError' = message
               /\ isGeneratingReport' = FALSE
  /\ UNCHANGED <<profile, active, landingVars, apiKeyPresent, client, calls>>

Next ==
  \/ \E s \in TypableStatements : SetProblemStatement(s)
  \/ handleGenerateQuestions
  \/ ClickDisabledButton
  \/ \E i \in 1..Len(reqs), h \in HttpOutcomes : LandingSettle(i, h)
  \/ \E k \in Sections : SetActive(k)
  \/ generateMarketResearchReport
  \/ \E i \in 1..Len(reqs), h \in HttpOutcomes : DashboardSettle(i, h)
  \/ \E i \in 1..Len(reqs) : NeverAnswered(i)
  \/ \E t \in Tasks, s \in ApiStatements : ApiPost(t, s)
  \/ \E a \in AnswerSamples : ApiPostReport(Str(0, maxLength, 0), a)
  \/ \E i \in 1..Len(reqs) : BackendValidate(i)
  \/ \E i \in 1..Len(reqs), n \in NetworkSamples, v \in LiveVariants : BackendCall(i, n, v)

Spec == Init /\ [][Next]_vars

\* the event loop runs every continuation that is ready, and the backend
\* finishes the work it has accepted; nothing obliges it to answer
FairSpec ==
  /\ Spec
  /\ WF_vars(\E i \in 1..Len(reqs), h \in HttpOutcomes : LandingSettle(i, h))
  /\ WF_vars(\E i \in 1..Len(reqs), h \in HttpOutcomes : DashboardSettle(i, h))
  /\ WF_vars(\E i \in 1..Len(reqs) : BackendValidate(i))
  /\ WF_vars(\E i \in 1..Len(reqs), n \in NetworkSamples, v \in LiveVariants : BackendCall(i, n, v))

(***************************************************************************)
(* The exported functions called directly.  A caller (another module, a    *)
(* test) applies the service's functions to arguments of any shape and the *)
(* server answers anything a server can; calls logs each application.      *)
(***************************************************************************)
MaxCalls == 2

\* a JavaScript value as far as the service looks at it: its type, its length
\* (string) or numeric value, and its items (array)
JsValue(t, n, xs) == [type |-> t, len |-> n, items |-> xs]

JsUndefined == JsValue("undefined", 0, <<>>)

JsNull == JsValue("null", 0, <<>>)

UserAnswersSamples ==
  { JsUndefined, JsNull,
    JsValue("array", 0, <<>>),
    JsValue("array", 1, << AnswerPair({"question", "answer"}, 5) >>),
    JsValue("string", 3, <<>>),
    JsValue("object", 0, <<>>) }

\* ToBoolean
JsTruthy(v) ==
  CASE v.type \in {"undefined", "null"} -> FALSE
    [] v.type \in {"string", "number"} -> v.len # 0
    [] OTHER -> TRUE

IsArray(v) == v.type = "array"

\* v.length > 0; undefined > 0 is false
LengthPositive(v) ==
  CASE v.type = "array" -> Len(v.items) > 0
    [] v.type = "string" -> v.len > 0
    [] OTHER -> FALSE

\* the JSON body of a request: the keys it has and their values
RequestBody(ks, s, ua) == [keys |-> ks, problem_statement |-> s, user_answers |-> ua]

\* generateReport adding user_answers without Array.isArray
generateReportBodyNoArrayCheck(statement, userAnswers) ==
  LET given == IF userAnswers.type = "undefined" THEN JsNull ELSE userAnswers IN
  IF JsTruthy(given) /\ LengthPositive(given)
    THEN RequestBody({"problem_statement", "user_answers"}, statement, given.items)
    ELSE RequestBody({"problem_statement"}, statement, <<>>)

\* generateReport: requestBody, with the default userAnswers = null
generateReportBody(statement, userAnswers) ==
  LET given == IF userAnswers.type = "undefined" THEN JsNull ELSE userAnswers IN
  IF JsTruthy(given) /\ IsArray(given) /\ LengthPositive(given)
    THEN RequestBody({"problem_statement", "user_answers"}, statement, given.items)
    ELSE RequestBody({"problem_statement"}, statement, <<>>)

\* generateQuestions: body: JSON.stringify({problem_statement: problemStatement.trim()})
generateQuestionsBody(statement) ==
  RequestBody({"problem_statement"}, Trim(statement), <<>>)

\* the statements the functions are called with
ArgumentStatements == { Str(1, 0, 0), Str(1, maxLength - 2, 1) }

\* the JSON bodies a server answers with
ResponseSamples ==
  { NoEnvelope,
    Envelope(FALSE, NoPayload, "none", "Problem statement is too long"),
    Envelope(TRUE, FallbackBank(Str(0, 0, 0)), "fallback", "") }

ServiceCall(f, s, ua, b) ==
  [fn |-> f, problemStatement |-> s, userAnswers |-> ua, body |-> b,
   response |-> NoEnvelope, result |-> Pending]

\* who applies what: "caller" calls the service's functions, "handler" calls
\* handleGenerateQuestions on a page state, "hook" calls useProfile
Callers == {"caller", "handler", "hook"}

\* what the Landing page can show when the handler is called: nothing, the
\* questions of an earlier call, or the error of an earlier call
PageSamples ==
  { [questions |-> NoPayload, error |-> ""],
    [questions |-> FallbackBank(Str(0, 0, 0)), error |-> ""],
    [questions |-> NoPayload, error |-> "Failed to fetch"] }

CallerInit ==
  /\ client \in Callers
  /\ problemStatement \in (IF client = "handler" THEN TypableStatements ELSE {Str(0, 0, 0)})
  /\ isGenerating = FALSE
  /\ \E p \in (IF client = "handler" THEN PageSamples ELSE {[questions |-> NoPayload, error |-> ""]}) :
       questions = p.questions /\ error = p.error
  /\ ignoredClick = FALSE
  /\ profile = Str(0, 0, 0)
  /\ active = "profile"
  /\ marketReport = NoEnvelope
  /\ isGeneratingReport = FALSE
  /\ marketError = ""
  /\ apiKeyPresent = TRUE
  /\ reqs = <<>>
  /\ calls = <<>>

\* marketResearchService.generateQuestions(s) up to its await
CallGenerateQuestions(s) ==
  /\ client = "caller"
  /\ Len(calls) < MaxCalls
  /\ calls' = Append(calls, ServiceCall("generateQuestions", s, JsUndefined,
                                        generateQuestionsBody(s)))
  /\ UNCHANGED <<landingVars, dashboardVars, apiKeyPresent, client, reqs>>

\* marketResearchService.generateReport(s, ua) up to its await
CallGenerateReport(s, ua) ==
  /\ client = "caller"
  /\ Len(calls) < MaxCalls
  /\ calls' = Append(calls, ServiceCall("generateReport", s, ua,
                                        generateReportBody(s, ua)))
  /\ UNCHANGED <<landingVars, dashboardVars, apiKeyPresent, client, reqs>>

\* the fetch of call i settles and the function runs to its return or throw
ServiceSettles(i, http, resp) ==
  /\ client = "caller"
  /\ calls[i].fn \in {"generateQuestions", "generateReport"}
  /\ calls[i].result.kind = "pending"
  /\ http # "ok" => resp = NoEnvelope
  /\ calls' = [calls EXCEPT ![i].response = resp,
                            ![i].result = IF calls[i].fn = "generateQuestions"
                                            THEN generateQuestions(http, resp)
                                            ELSE generateReport(http, resp)]
  /\ UNCHANGED <<landingVars, dashboardVars, apiKeyPresent, client, reqs>>

\* a JavaScript value as useProfile's callers see it: its type and, for an
\* object, what its problem property holds (the empty string where it has none)
ProfileValue(t, p) == [type |-> t, problem |-> p]
EmptyProfile == ProfileValue("object", Str(0, 0, 0))

\* the texts the 'glowup-profile' entry can hold, as sequences of JSON tokens
RawSamples ==
  { <<>>, <<"{">>, <<"{", "problem">>, <<"{", "}">>, <<"null">>,
    <<"{", "problem", "}">> }

\* the entry itself: absent (getItem gives null), unreadable (reading the
\* storage throws) or present with a text
StorageSamples ==
  { [state |-> "absent", raw |-> <<>>], [state |-> "unreadable", raw |-> <<>>] }
    \cup { [state |-> "present", raw |-> r] : r \in RawSamples }

\* JSON.parse: the value of a well-formed text, a SyntaxError for any other
JsonParse(raw) ==
  IF raw = <<"null">>
    THEN [ok |-> TRUE, value |-> ProfileValue("null", Str(0, 0, 0))]
  ELSE IF Len(raw) >= 2 /\ raw[1] = "{" /\ raw[Len(raw)] = "}"
          /\ \A k \in 2..(Len(raw) - 1) : raw[k] = "problem"
          /\ Len(raw) <= 3
    THEN [ok |-> TRUE,
          value |-> ProfileValue("object",
                                 IF Len(raw) = 3 THEN Str(0, 1, 0) ELSE Str(0, 0, 0))]
  ELSE [ok |-> FALSE, value |-> EmptyProfile]

HookResult(k, v) == [kind |-> k, value |-> v]

\* useProfile without its catch
useProfileNoCatch(entry) ==
  IF entry.state = "unreadable" THEN HookResult("throw", EmptyProfile)
  ELSE IF entry.state = "absent" \/ entry.raw = <<>> THEN HookResult("return", EmptyProfile)
  ELSE IF ~JsonParse(entry.raw).ok THEN HookResult("throw", EmptyProfile)
  ELSE HookResult("return", JsonParse(entry.raw).value)

\* useProfile: getItem, then JSON.parse of a truthy text, {} from the catch
useProfile(entry) ==
  IF entry.state = "unreadable" THEN HookResult("return", EmptyProfile)
  ELSE IF entry.state = "absent" \/ entry.raw = <<>> THEN HookResult("return", EmptyProfile)
  ELSE IF ~JsonParse(entry.raw).ok THEN HookResult("return", EmptyProfile)
  ELSE HookResult("return", JsonParse(entry.raw).value)

\* a component renders and calls the hook
CallUseProfile(e) ==
  /\ client = "hook"
  /\ Len(calls) < MaxCalls
  /\ calls' = Append(calls, [fn |-> "useProfile", entry |-> e, result |-> useProfile(e)])
  /\ UNCHANGED <<landingVars, dashboardVars, apiKeyPresent, client, reqs>>

\* handleGenerateQuestions that clears the page before it validates
CallHandleGenerateQuestionsClearsFirst ==
  /\ client = "handler"
  /\ Len(reqs) < MaxRequests
  /\ IF ~Truthy(Trim(problemStatement))
       THEN /\ error' = "Please enter a problem statement"
            /\ questions' = NoPayload
            /\ UNCHANGED <<isGenerating, reqs>>
       ELSE /\ isGenerating' = TRUE
            /\ error' = ""
            /\ questions' = NoPayload
            /\ reqs' = Append(reqs, NewRequest("landing", "questions",
                                               Trim(Trim(problemStatement))))
  /\ UNCHANGED <<problemStatement, ignoredClick, dashboardVars, apiKeyPresent, client, calls>>

\* handleGenerateQuestions called as a function, whatever the button's state, up
\* to its return or its await
CallHandleGenerateQuestions ==
  /\ client = "handler"
  /\ Len(reqs) < MaxRequests
  /\ IF ~Truthy(Trim(problemStatement))
       THEN /\ error' = "Please enter a problem statement"
            /\ UNCHANGED <<isGenerating, questions, reqs>>
       ELSE /\ isGenerating' = TRUE
            /\ error' = ""
            /\ questions' = NoPayload
            /\ reqs' = Append(reqs, NewRequest("landing", "questions",
                                               Trim(Trim(problemStatement))))
  /\ UNCHANGED <<problemStatement, ignoredClick, dashboardVars, apiKeyPresent, client, calls>>

\* the user edits the text between two calls of the handler
HandlerStatementEdited(s) ==
  /\ client = "handler"
  /\ s # problemStatement
  /\ problemStatement' = s
  /\ UNCHANGED <<isGenerating, questions, error, ignoredClick, dashboardVars,
                 apiKeyPresent, client, reqs, calls>>

CallerNext ==
  \/ \E s \in ArgumentStatements : CallGenerateQuestions(s)
  \/ \E ua \in UserAnswersSamples : CallGenerateReport(Str(1, maxLength - 2, 1), ua)
  \/ \E i \in 1..Len(calls), h \in HttpOutcomes, b \in ResponseSamples :
       ServiceSettles(i, h, b)
  \/ CallHandleGenerateQuestions
  \/ \E s \in TypableStatements : HandlerStatementEdited(s)
  \/ \E e \in StorageSamples : CallUseProfile(e)

CallerSpec == CallerInit /\ [][CallerNext]_vars

(***************************************************************************)
(* Properties.                                                             *)
(***************************************************************************)
Requests == { reqs[i] : i \in 1..Len(reqs) }

InvalidLength(ps) == Length(ps) = 0 \/ Length(ps) > MaxProblemLength

GatewayFailed(r) == r.gwOutcome \in GatewayErrorKinds

\* C1: a request whose problem statement has length 0 or more than the maximum
\* length ends in a ValidationError (success false, a message) and neither the
\* Gateway nor its network call is ever invoked for it; the pages reject an
\* empty statement themselves and issue no request for it.
C1_InvalidStatementNeverReachesGateway ==
  \A r \in Requests :
    /\ r.origin # "api" => Length(r.ps) > 0
    /\ InvalidLength(r.ps) =>
         /\ r.gw = 0 /\ r.net = 0
         /\ r.stage \in {"Validating", "Failed"}
         /\ r.stage = "Failed" =>
              r.verdict = "ValidationError" /\ ~r.env.success /\ r.env.error # ""

C1_Witness ==
  /\ \E r \in Requests : Length(r.ps) = 0 /\ r.stage = "Failed"
  /\ \E r \in Requests : Length(r.ps) > MaxProblemLength /\ r.stage = "Failed"

\* C2: when the Gateway fails on a question-generation request, the Orchestrator's
\* result is success = true, generationMethod = fallback and the non-empty question
\* sequence of the Fallback Question Bank for that input, and the service call that
\* receives this answer returns it.
C2_QuestionGatewayFailureFallsBack ==
  \A r \in Requests :
    r.task = "questions" /\ GatewayFailed(r) =>
      /\ r.stage = "FallingBack"
      /\ r.env.success /\ r.env.error = ""
      /\ r.env.generationMethod = "fallback"
      /\ r.env.payload = FallbackBank(r.ps)
      /\ Len(r.env.payload.items) > 0
      /\ r.result.http = "ok" => r.result.kind = "return" /\ r.result.data = r.env

C2_Witness ==
  \E r \in Requests :
    /\ r.origin = "landing" /\ r.gwOutcome = "timeout"
    /\ r.result.kind = "return" /\ questions = FallbackBank(r.ps)

\* C3: when the Gateway fails on a report, pitch or investor request, the result is
\* success = false with an empty payload and a non-empty error; no fallback content
\* stands in for it, and the service call never returns a payload for it.
C3_ReportGatewayFailureFails ==
  \A r \in Requests :
    r.task # "questions" /\ GatewayFailed(r) =>
      /\ r.stage = "Failed"
      /\ ~r.env.success /\ r.env.payload = NoPayload /\ r.env.error # ""
      /\ r.env.generationMethod # "fallback"
      /\ r.result.kind # "return"

C3_Witness ==
  /\ \E r \in Requests :
       /\ r.origin = "dashboard" /\ GatewayFailed(r) /\ r.result.http = "ok"
       /\ r.result.kind = "throw" /\ marketReport = NoEnvelope /\ marketError # ""
       /\ ~isGeneratingReport

\* C4: in every envelope the Orchestrator produces and in every outcome of a service
\* call, exactly one of payload and error is populated: the payload when success is
\* true, the error when it is false.
C4_PayloadXorError ==
  \A r \in Requests :
    /\ r.stage \in TerminalStages =>
         IF r.env.success
           THEN r.env.payload # NoPayload /\ r.env.error = ""
           ELSE r.env.payload = NoPayload /\ r.env.error # ""
    /\ r.result.kind = "return" =>
         r.result.data.success /\ r.result.data.payload # NoPayload
           /\ r.result.data.error = "" /\ r.result.message = ""
    /\ r.result.kind = "throw" =>
         r.result.message # "" /\ r.result.data.payload = NoPayload

C4_Witness ==
  /\ \E r \in Requests : r.result.kind = "return" /\ r.env.success
  /\ \E r \in Requests : r.result.kind = "throw" /\ r.result.http = "ok" /\ ~r.env.success

\* C5: when the Gateway succeeds the Orchestrator reaches Succeeded, the envelope is
\* success = true, generationMethod = live-model with the Gateway's payload as it
\* came, and the service call that receives it returns it unchanged.
C5_GatewaySuccessPassesThrough ==
  \A r \in Requests :
    r.gwOutcome = "ok" =>
      /\ r.stage = "Succeeded"
      /\ r.gwPayload # NoPayload
      /\ r.env = Envelope(TRUE, r.gwPayload, "live-model", "")
      /\ r.result.http = "ok" => r.result.kind = "return" /\ r.result.data = r.env

C5_Witness ==
  \E r \in Requests :
    /\ r.origin = "dashboard" /\ r.gwOutcome = "ok" /\ r.result.kind = "return"
    /\ marketReport = r.env /\ marketReport.generationMethod = "live-model"

\* C6: a request that passed validation invokes the Gateway exactly once, also when
\* an identical request was served before; and a request is issued only by a step
\* that leaves every earlier request as it is, never by the step in which an
\* attempt fails or is answered.
GatewayOncePerRequest ==
  \A r \in Requests :
    /\ r.gw <= 1 /\ r.net <= r.gw
    /\ r.stage \in {"Validating", "Calling"} => r.gw = 0
    /\ r.stage \in TerminalStages /\ r.verdict # "ValidationError" => r.gw = 1

NoReissue ==
  Len(reqs') > Len(reqs) => \A i \in 1..Len(reqs) : reqs'[i] = reqs[i]

C6_OneGatewayCallPerRequest == [](GatewayOncePerRequest) /\ [][NoReissue]_vars

C6_Witness ==
  \E i, j \in 1..Len(reqs) :
    /\ i < j /\ reqs[i].origin = "landing" /\ reqs[j].origin = "landing"
    /\ reqs[i].ps = reqs[j].ps
    /\ reqs[i].gw = 1 /\ reqs[j].gw = 1
    /\ reqs[i].gwOutcome = "timeout" /\ reqs[j].gwOutcome = "ok"

\* C7 as stated: no service call ever ends by raising an exception; every HTTP
\* failure, non-2xx status, malformed JSON or timeout comes back as a typed result.
C7_ServiceNeverThrows ==
  \A r \in Requests : r.result.kind # "throw"

\* C7 as it holds: the service call raises every failure.  A rejected fetch, a
\* non-2xx status, a body that is not JSON and a body whose success is false each
\* end the call with a thrown Error that carries a message, never with a returned
\* value; the page's handler is the one that catches it.
C7_ServiceThrowsOnFailure ==
  \A r \in Requests :
    (r.result.http \in {"reject", "non2xx", "badjson"}
       \/ (r.result.http = "ok" /\ ~r.env.success))
      => r.result.kind = "throw" /\ r.result.message # ""

C7_Witness ==
  \E r \in Requests :
    /\ r.origin = "landing" /\ r.result.http = "non2xx" /\ r.result.kind = "throw"
    /\ error = r.result.message /\ ~isGenerating

Outstanding(o) ==
  { i \in 1..Len(reqs) : reqs[i].origin = o /\ reqs[i].result.kind \in {"pending", "hung"} }

C9_OneOutstandingRequest == Cardinality(Outstanding("landing")) <= 1

C9_Witness ==
  /\ Cardinality(Outstanding("landing")) = 1
  /\ Len(reqs) = 2
  /\ Truthy(Trim(problemStatement)) /\ isGenerating

\* C10: every started request is eventually answered or timed out, and the Landing
\* page's isGenerating is eventually cleared, even if the backend never answers.
C10_RequestsTerminate ==
  /\ isGenerating ~> ~isGenerating
  /\ \A i \in 1..MaxRequests :
       (i <= Len(reqs) /\ reqs[i].origin = "landing")
         ~> (i <= Len(reqs) /\ reqs[i].result.kind \in {"return", "throw"})

\* C11: a failed generation does not affect the requests that follow.  Once no
\* request is outstanding the Landing page is ready for the next one; what the page
\* shows when a request settles is that request's own outcome; and the envelope of a
\* request is determined by its own input and its own Gateway result, whatever was
\* served before it.
SameInputAndGatewayResult(r1, r2) ==
  /\ r1.task = r2.task /\ r1.ps = r2.ps /\ r1.answers = r2.answers
  /\ r1.stage \in TerminalStages /\ r2.stage \in TerminalStages
  /\ r1.gwOutcome = r2.gwOutcome /\ r1.gwPayload = r2.gwPayload

EnvelopeIsOwn ==
  \A r1, r2 \in Requests :
    SameInputAndGatewayResult(r1, r2) => r1.env = r2.env /\ r1.stage = r2.stage

ReadyWhenIdle ==
  client = "landing" /\ Outstanding("landing") = {} => ~isGenerating

Settles(i) ==
  /\ i <= Len(reqs') /\ reqs[i].result.kind = "pending"
  /\ reqs'[i].result.kind \in {"return", "throw"}

LandingOutcomeIsOwn ==
  \A i \in 1..Len(reqs) :
    reqs[i].origin = "landing" /\ Settles(i) =>
      /\ ~isGenerating'
      /\ questions' = (IF reqs'[i].result.kind = "return"
                         THEN reqs[i].env.payload ELSE NoPayload)
      /\ error' = (IF reqs'[i].result.kind = "throw"
                     THEN reqs'[i].result.message ELSE "")

C11_FailureDoesNotAffectNextRequest ==
  [](EnvelopeIsOwn /\ ReadyWhenIdle) /\ [][LandingOutcomeIsOwn]_vars

C11_Witness ==
  /\ Len(reqs) = 2
  /\ reqs[1].origin = "landing" /\ reqs[1].result.kind = "throw"
  /\ reqs[2].origin = "landing" /\ reqs[2].result.kind = "return"
  /\ questions = reqs[2].env.payload /\ error = "" /\ ~isGenerating

\* the latest request of the Landing page has settled after a Gateway failure
LatestSettledAfterGatewayFailure ==
  /\ client = "landing" /\ Len(reqs) > 0
  /\ GatewayFailed(reqs[Len(reqs)])
  /\ reqs[Len(reqs)].result.kind \in {"return", "throw"}

\* C12 as stated: whenever a valid statement was submitted and live generation
\* failed, the user ends up seeing questions and no error message.
C12_GatewayFailureAlwaysEndsInQuestions ==
  LatestSettledAfterGatewayFailure =>
    /\ questions = FallbackBank(reqs[Len(reqs)].ps)
    /\ error = ""

\* C12: on the question path a Gateway failure is never what the user is shown.
\* When live generation failed and the HTTP exchange delivered the backend's answer,
\* the page shows the fallback questions and no error; the only errors shown are
\* failures of the HTTP exchange itself (no connection, non-2xx status, malformed
\* body), and they are shown whether or not the Gateway failed.
C12_DeliveredGatewayFailureShowsQuestions ==
  LatestSettledAfterGatewayFailure =>
    LET r == reqs[Len(reqs)] IN
      IF r.result.http = "ok"
        THEN /\ r.result.kind = "return"
             /\ questions = FallbackBank(r.ps)
             /\ error = ""
        ELSE /\ r.result.kind = "throw"
             /\ questions = NoPayload
             /\ error = r.result.message /\ error # ""

C12_Witness ==
  /\ LatestSettledAfterGatewayFailure
  /\ reqs[Len(reqs)].result.http = "ok"
  /\ questions = FallbackBank(reqs[Len(reqs)].ps)
  /\ questions.items # <<>>
  /\ error = ""

\* request i settles with the backend's answer delivered, and that answer is a
\* ValidationError
SettlesWithValidationError(i) ==
  /\ Settles(i)
  /\ reqs[i].verdict = "ValidationError"
  /\ reqs'[i].result.http = "ok"

\* C13: a ValidationError raised for a request reaches the caller as a failure
\* carrying the validation message, and that message is what the page shows.
C13_ValidationMessageReachesUI ==
  [][\A i \in 1..Len(reqs) :
       SettlesWithValidationError(i) =>
         /\ ~reqs[i].env.success
         /\ reqs'[i].result.kind = "throw"
         /\ reqs'[i].result.message = reqs[i].env.error
         /\ reqs[i].origin = "landing" => error' = reqs[i].env.error
         /\ reqs[i].origin = "dashboard" => marketError' = reqs[i].env.error]_vars

\* the Fallback Question Bank was used for request r
UsedFallback(r) ==
  \/ r.stage = "FallingBack"
  \/ r.env.generationMethod = "fallback"
  \/ r.env.payload.kind # "none" /\ r.env.payload.variant = 0

\* C14: the Fallback Question Bank is used only for a question-generation request
\* whose statement passed validation and whose one Gateway call ended in a
\* GatewayError; when used it succeeds with the bank's questions; and two requests
\* served from the bank for the same problem statement get the same questions.
C14_FallbackOnlyAfterGatewayError ==
  /\ \A r \in Requests :
       UsedFallback(r) =>
         /\ r.task = "questions"
         /\ ValidationError(r.ps) = "" /\ r.verdict = "GatewayError"
         /\ r.gw = 1 /\ GatewayFailed(r)
         /\ r.env.success /\ r.env.error = ""
         /\ r.env.generationMethod = "fallback"
         /\ r.env.payload.kind = "questions" /\ r.env.payload.items # <<>>
  /\ \A r1, r2 \in Requests :
       UsedFallback(r1) /\ UsedFallback(r2) /\ r1.ps = r2.ps =>
         r1.env.payload = r2.env.payload

C14_Witness ==
  /\ Len(reqs) = 2
  /\ UsedFallback(reqs[1]) /\ UsedFallback(reqs[2])
  /\ reqs[1].ps = reqs[2].ps
  /\ reqs[1].gwOutcome # reqs[2].gwOutcome

\* request r served alone: a fresh request with r's input goes through the
\* Orchestrator with r's own Gateway outcome
RunAlone(r) ==
  LET validated == OrchestratorValidate([NewRequest(r.origin, r.task, r.ps)
                                           EXCEPT !.answers = r.answers]) IN
  IF validated.stage = "Failed" THEN validated
  ELSE OrchestratorCall(validated, apiKeyPresent,
                        IF r.gwOutcome = "none" THEN "ok" ELSE r.gwOutcome,
                        r.gwPayload.variant)

EnvelopeAsIfAlone ==
  \A r \in Requests :
    r.stage \in TerminalStages =>
      LET alone == RunAlone(r) IN
        /\ r.env = alone.env
        /\ r.stage = alone.stage
        /\ r.gw = alone.gw /\ r.net = alone.net

\* what the backend holds about request j
ServerSide(rs, j) ==
  <<rs[j].task, rs[j].ps, rs[j].answers, rs[j].stage, rs[j].gw, rs[j].net,
    rs[j].gwOutcome, rs[j].gwPayload, rs[j].env, rs[j].verdict>>

BackendStepTouchesOneRequest ==
  Cardinality({ i \in 1..Len(reqs) : ServerSide(reqs', i) # ServerSide(reqs, i) }) <= 1

\* C15: requests share no mutable server-side state.  Under every interleaving of
\* the backend's steps, a step for one request leaves what the backend holds about
\* every other request as it was, and the envelope a request ends with is the one
\* it gets when served alone with the same input and the same Gateway outcome.
C15_ConcurrentRequestsAreIsolated ==
  [](EnvelopeAsIfAlone) /\ [][BackendStepTouchesOneRequest]_vars

C15_Witness ==
  /\ client = "api" /\ Len(reqs) = 2
  /\ reqs[1].stage \in TerminalStages /\ reqs[2].stage \in TerminalStages
  /\ reqs[1].task = reqs[2].task /\ reqs[1].ps = reqs[2].ps
  /\ reqs[1].gwOutcome # "ok" /\ reqs[2].gwOutcome = "ok"
  /\ reqs[1].env # reqs[2].env

BlankStatement == ~Truthy(Trim(problemStatement))

BlankClick == BlankStatement /\ ~ignoredClick /\ ignoredClick'

QuestionsAnswerLatestRequest ==
  client = "landing" /\ questions # NoPayload =>
    /\ Len(reqs) > 0
    /\ reqs[Len(reqs)].origin = "landing"
    /\ reqs[Len(reqs)].result.kind = "return"
    /\ questions = reqs[Len(reqs)].env.payload

\* only the latest request of the page can still settle, and a settled call
\* keeps its result
OneResponseInOrder ==
  \A i \in 1..Len(reqs) :
    reqs[i].origin = "landing" =>
      /\ Settles(i) => i = Len(reqs')
      /\ reqs[i].result.kind \in {"return", "throw"} => reqs'[i].result = reqs[i].result

\* C17: after any sequence of question-generation requests from the Landing page,
\* the questions shown are the response to the most recently submitted statement:
\* each request gets one response, and no response to an earlier request arrives
\* after a later request was submitted.
C17_QuestionsBelongToLatestRequest ==
  [](QuestionsAnswerLatestRequest) /\ [][OneResponseInOrder]_vars

C17_Witness ==
  /\ client = "landing" /\ Len(reqs) = 2
  /\ reqs[1].result.kind = "return" /\ reqs[2].result.kind = "return"
  /\ reqs[1].env.payload # reqs[2].env.payload
  /\ questions = reqs[2].env.payload

QuestionKinds == {"free-text", "single-select"}

WellShaped(q) ==
  /\ DOMAIN q = {"id", "text", "kind", "options"}
  /\ q.id \in Nat /\ q.id > 0
  /\ q.text # ""
  /\ q.kind \in QuestionKinds
  /\ q.options # <<>> <=> q.kind = "single-select"

AllWellShaped(p) ==
  p.kind = "questions" => \A k \in 1..Len(p.items) : WellShaped(p.items[k])

\* C18: every Question that is returned, produced live or by the Fallback Bank,
\* has an id, a text and a kind that is free-text or single-select, and has
\* options exactly when its kind is single-select; this holds in the envelope, in
\* what the service returns and in what the Landing page holds.
C18_QuestionsHaveOneShape ==
  /\ \A r \in Requests :
       /\ AllWellShaped(r.env.payload)
       /\ AllWellShaped(r.result.data.payload)
       /\ r.task = "questions" /\ r.env.success =>
            r.env.payload.kind = "questions" /\ r.env.payload.items # <<>>
  /\ AllWellShaped(questions)

C18_Witness ==
  /\ Len(reqs) = 2
  /\ reqs[1].env.generationMethod = "fallback"
  /\ reqs[2].env.generationMethod = "live-model"
  /\ \E k \in 1..Len(reqs[2].env.payload.items) :
       reqs[2].env.payload.items[k].kind = "single-select"
  /\ questions = reqs[2].env.payload

MissingField(r) ==
  \/ Length(r.ps) = 0
  \/ \E k \in 1..Len(r.answers) : r.answers[k].has # {"question", "answer"}

EmptyAnswer(r) == \E k \in 1..Len(r.answers) : r.answers[k].answer = 0

\* C19: report generation validates the problem statement and the user answers
\* before anything else: a report request with a missing required field or an
\* empty answer ends as a failure that carries an error message, with no Gateway
\* call and no network call, and only a request that passed reaches the Gateway.
C19_InvalidReportInputFailsWithoutCall ==
  \A r \in Requests :
    r.task = "report" =>
      /\ r.stage # "Validating" /\ (MissingField(r) \/ EmptyAnswer(r)) =>
           /\ r.stage = "Failed" /\ r.verdict = "ValidationError"
           /\ ~r.env.success /\ r.env.error # ""
           /\ r.env.payload = NoPayload
           /\ r.gw = 0 /\ r.net = 0
      /\ r.stage = "Calling" \/ r.gw > 0 => ~MissingField(r) /\ ~EmptyAnswer(r)

C19_Witness ==
  \E r \in Requests :
    /\ r.task = "report" /\ Length(r.ps) = maxLength
    /\ EmptyAnswer(r) /\ ~MissingField(r)
    /\ r.stage = "Failed" /\ r.env.error # "" /\ r.net = 0

\* a service call that settles leaves every other call's record, what the backend
\* holds and the page's inputs as they were, and its result is made of its own
\* response only
ServiceCallFrame ==
  \A i \in 1..Len(reqs) :
    Settles(i) =>
      /\ \A j \in 1..Len(reqs) : j # i => reqs'[j] = reqs[j]
      /\ ServerSide(reqs', i) = ServerSide(reqs, i)
      /\ UNCHANGED <<problemStatement, profile, active, apiKeyPresent, client>>
      /\ reqs'[i].result.kind = "return" =>
           reqs'[i].result.http = "ok" /\ reqs'[i].result.data = reqs[i].env
      /\ reqs'[i].result.kind = "throw" => reqs'[i].result.data = NoEnvelope

\* two calls of the same function that got the same response ended the same way
SameResponseSameResult ==
  \A r1, r2 \in Requests :
    /\ r1.task = r2.task
    /\ r1.result.kind \in {"return", "throw"} /\ r2.result.kind \in {"return", "throw"}
    /\ r1.result.http = r2.result.http
    /\ r1.result.http = "ok" => r1.env = r2.env
    => r1.result = r2.result

\* C20: a call of the client service has no effect besides its network call: it
\* changes no state that outlives it, so when it settles nothing but its own result
\* (and what the calling handler then sets on its page) has changed, and its result
\* depends on the response it got and on nothing kept from earlier calls.
C20_ServiceCallChangesNoState ==
  [](SameResponseSameResult) /\ [][ServiceCallFrame]_vars

C20_Witness ==
  /\ client = "dashboard" /\ Len(reqs) = 2
  /\ reqs[1].result.kind = "return" /\ reqs[1].result.data = reqs[1].env
  /\ reqs[2].result.kind = "throw" /\ reqs[2].result.http = "ok"

ServiceCalls(f) == { i \in 1..Len(calls) : calls[i].fn = f }

\* the argument is a non-empty array
NonEmptyArray(v) == v.type = "array" /\ v.items # <<>>

\* C21: generateReport puts user_answers in the request body exactly when its
\* second argument is a non-empty array, and then it is that array; for undefined,
\* null, an empty array and a value that is not an array the body has the key
\* problem_statement only.  problem_statement is the first argument as given.
C21_UserAnswersOnlyForNonEmptyArray ==
  \A i \in ServiceCalls("generateReport") :
    LET c == calls[i] IN
      /\ c.body.problem_statement = c.problemStatement
      /\ IF NonEmptyArray(c.userAnswers)
           THEN /\ c.body.keys = {"problem_statement", "user_answers"}
                /\ c.body.user_answers = c.userAnswers.items
           ELSE /\ c.body.keys = {"problem_statement"}
                /\ c.body.user_answers = <<>>

C21_Witness ==
  /\ Len(calls) = 2
  /\ calls[1].fn = "generateReport" /\ calls[2].fn = "generateReport"
  /\ calls[1].userAnswers.type = "string" /\ calls[1].body.keys = {"problem_statement"}
  /\ NonEmptyArray(calls[2].userAnswers) /\ "user_answers" \in calls[2].body.keys

SettledCalls ==
  { i \in 1..Len(calls) :
      /\ calls[i].fn \in {"generateQuestions", "generateReport"}
      /\ calls[i].result.kind # "pending" }

\* C22: generateQuestions and generateReport return the response body exactly
\* when the status is 2xx, the body parses as JSON and its success field is true;
\* after a network failure, a non-2xx status, a malformed body or success false
\* they throw an Error with a message and return nothing.
C22_ReturnsOnlyOnSuccessBody ==
  \A i \in SettledCalls :
    LET c == calls[i] IN
      /\ c.result.kind \in {"return", "throw"}
      /\ c.result.kind = "return" <=> (c.result.http = "ok" /\ c.response.success)
      /\ c.result.kind = "return" => c.result.data = c.response /\ c.result.message = ""
      /\ c.result.kind = "throw" => c.result.data = NoEnvelope /\ c.result.message # ""

C22_Witness ==
  /\ Len(calls) = 2
  /\ calls[1].fn = "generateQuestions" /\ calls[1].result.kind = "return"
  /\ calls[1].result.data.success
  /\ calls[2].fn = "generateReport" /\ calls[2].result.kind = "throw"
  /\ calls[2].result.http = "ok" /\ calls[2].result.message = calls[2].response.error

\* C23: in the Landing page isGenerating is true exactly when a question-generation
\* call is outstanding (issued and not yet returned or thrown): never false while
\* one is awaited, never true when none is.
C23_LoadingIffOutstanding ==
  client = "landing" => (isGenerating <=> Outstanding("landing") # {})

C23_Witness ==
  /\ client = "landing" /\ Len(reqs) = 2
  /\ reqs[1].result.kind = "throw" /\ reqs[2].result.kind = "pending"
  /\ reqs[2].stage \in TerminalStages
  /\ isGenerating

\* C24: in every state the Landing page reaches, a non-empty error and non-null
\* questions are never present together.
C24_ErrorAndQuestionsExclusive ==
  client = "landing" => ~(error # "" /\ questions # NoPayload)

C24_Witness ==
  /\ client = "landing" /\ Len(reqs) = 2
  /\ reqs[1].result.kind = "return" /\ reqs[2].result.kind = "throw"
  /\ error # "" /\ questions = NoPayload
  /\ BlankStatement

\* C25: whenever a question-generation call of the Landing page is in flight, no
\* error and no questions are displayed: both are cleared when the call is issued
\* and stay cleared until it returns or throws.
C25_ClearedWhileInFlight ==
  client = "landing" /\ Outstanding("landing") # {} =>
    error = "" /\ questions = NoPayload

C25_Witness ==
  /\ client = "landing" /\ Len(reqs) = 2
  /\ reqs[1].result.kind = "return" /\ reqs[1].env.payload # NoPayload
  /\ reqs[2].result.kind = "pending"
  /\ error = "" /\ questions = NoPayload /\ isGenerating

\* C26: every problem_statement the Landing page sends to /api/generate-questions
\* is non-empty, has no leading and no trailing whitespace and is at most 1000
\* characters long.
C26_SentStatementIsTrimmedAndBounded ==
  \A r \in Requests :
    r.origin = "landing" =>
      /\ r.task = "questions"
      /\ Length(r.ps) > 0
      /\ r.ps.lead = 0 /\ r.ps.trail = 0
      /\ Length(r.ps) <= 1000

C26_Witness ==
  /\ client = "landing" /\ Len(reqs) > 0
  /\ problemStatement = Str(1, maxLength - 2, 1)
  /\ reqs[Len(reqs)].ps = Str(0, maxLength - 2, 0)
  /\ reqs[Len(reqs)].result.kind = "pending"

\* C27: a validation rejection in handleGenerateQuestions changes the error field
\* only: it sets the validation message, leaves the displayed questions and
\* isGenerating as they were, and starts no request.
C27_RejectionChangesOnlyError ==
  [][client = "handler" /\ BlankStatement /\ problemStatement' = problemStatement =>
       /\ error' = "Please enter a problem statement"
       /\ UNCHANGED <<questions, isGenerating, reqs, calls>>]_vars

C27_Witness ==
  /\ client = "handler"
  /\ BlankStatement
  /\ error = "Please enter a problem statement"
  /\ questions # NoPayload
  /\ ~isGenerating /\ reqs = <<>>

\* C28: useProfile never throws; it returns the empty profile object when the
\* 'glowup-profile' entry is absent, unreadable or not valid JSON, and the parsed
\* value otherwise.
C28_UseProfileNeverThrows ==
  \A i \in 1..Len(calls) :
    calls[i].fn = "useProfile" =>
      LET e == calls[i].entry
          wellFormed == e.state = "present"
                          /\ e.raw \in {<<"null">>, <<"{", "}">>, <<"{", "problem", "}">>}
      IN /\ calls[i].result.kind = "return"
         /\ ~wellFormed => calls[i].result.value = EmptyProfile
         /\ wellFormed =>
              calls[i].result.value =
                IF e.raw = <<"null">> THEN ProfileValue("null", Str(0, 0, 0))
                ELSE IF e.raw = <<"{", "}">> THEN EmptyProfile
                ELSE ProfileValue("object", Str(0, 1, 0))

C28_Witness ==
  /\ \E i \in 1..Len(calls) :
       calls[i].fn = "useProfile" /\ calls[i].entry.state = "present"
         /\ calls[i].entry.raw = <<"{", "problem">>
         /\ calls[i].result = HookResult("return", EmptyProfile)
  /\ \E i \in 1..Len(calls) :
       calls[i].fn = "useProfile" /\ calls[i].entry.raw = <<"{", "problem", "}">>
         /\ calls[i].result.value.problem # Str(0, 0, 0)

====
